---------------------------- MODULE Spec2Model ----------------------------
(***************************************************************************)
(* Model of the SEMrush keyword table component                            *)
(* (src/src/components/SemrushKeywordTable.vue): the delimited-text parser *)
(* parseSemrushText with its field decoders, and the session state the     *)
(* component keeps around the parsed table (loads, selection, tag filters, *)
(* debounced text filter, sort key and direction).                         *)
(*                                                                         *)
(* A JavaScript string is a sequence of atoms.  An atom is one character   *)
(* (";", ",", " ", "\n", "\r", a digit, "-", ".", "x") or one indivisible  *)
(* word (a column name such as "Search Volume", a keyword word such as     *)
(* "seo").  The code never looks inside a word: it splits on line breaks,  *)
(* ";" and ",", trims white space, compares whole cells and parses         *)
(* numbers digit by digit.  Number syntax outside the atoms used here      *)
(* (exponents, "Infinity") is not modelled.                                *)
(*                                                                         *)
(* A JavaScript number is a record [n, d] standing for the decimal n/d     *)
(* with d a power of ten and no common factor ten; integers that the code  *)
(* uses as codes or ids (list entries of parseIntList, row ids) are TLA+   *)
(* integers.                                                               *)
(***************************************************************************)
EXTENDS Integers, Sequences, FiniteSets, TLC

-----------------------------------------------------------------------------
(* Strings *)

WhiteSpace == {" ", "\r", "\n"}

Digits == {"0", "1", "2", "3", "4", "5", "6", "7", "8", "9"}

DigitVal(c) ==
  CASE c = "0" -> 0 [] c = "1" -> 1 [] c = "2" -> 2 [] c = "3" -> 3
    [] c = "4" -> 4 [] c = "5" -> 5 [] c = "6" -> 6 [] c = "7" -> 7
    [] c = "8" -> 8 [] c = "9" -> 9

SetMin(S) == CHOOSE x \in S : \A y \in S : x <= y

SetMax(S) == CHOOSE x \in S : \A y \in S : x >= y

\* the part of s between its first and last position of `keep`
Span(s, keep) == IF keep = {} THEN <<>> ELSE SubSeq(s, SetMin(keep), SetMax(keep))

\* String.prototype.trim
Trim(s) == Span(s, {i \in 1..Len(s) : s[i] \notin WhiteSpace})

\* the k-th smallest element of a set of integers, k in 1..Cardinality(P)
Kth(P, k) == CHOOSE i \in P : Cardinality({j \in P : j < i}) = k - 1

\* the k-th piece of s cut at the positions P
Piece(s, P, k) ==
  SubSeq(s, IF k = 1 THEN 1 ELSE Kth(P, k - 1) + 1,
            IF k = Cardinality(P) + 1 THEN Len(s) ELSE Kth(P, k) - 1)

CutAt(s, P) == [k \in 1..(Cardinality(P) + 1) |-> Piece(s, P, k)]

\* String.prototype.split on a one-character separator
Split(s, sep) == CutAt(s, {i \in 1..Len(s) : s[i] = sep})

\* a line without the "\r" it ends with, if any
DropReturn(line) ==
  IF Len(line) > 0 /\ line[Len(line)] = "\r" THEN SubSeq(line, 1, Len(line) - 1) ELSE line

\* the pieces before a line break lose the "\r" the break starts with
DropReturns(pieces) ==
  [k \in 1..Len(pieces) |-> IF k < Len(pieces) THEN DropReturn(pieces[k]) ELSE pieces[k]]

\* text.split(/\r?\n/): a "\r" directly before the line break belongs to the
\* separator
SplitLines(s) == DropReturns(Split(s, "\n"))

\* raw.replace(/,/g, '')
StripCommas(s) == SelectSeq(s, LAMBDA c : c # ",")

\* Array.prototype.join
RECURSIVE Join(_, _)
Join(parts, sep) ==
  IF Len(parts) = 0 THEN <<>>
  ELSE IF Len(parts) = 1 THEN parts[1]
  ELSE parts[1] \o sep \o Join(Tail(parts), sep)

-----------------------------------------------------------------------------
(* Numbers *)

NaN == [nan |-> TRUE]

RECURSIVE Pow10(_)
Pow10(k) == IF k = 0 THEN 1 ELSE 10 * Pow10(k - 1)

\* the value of a run of digits
RECURSIVE DigitsValue(_)
DigitsValue(ds) ==
  IF Len(ds) = 0 THEN 0
  ELSE 10 * DigitsValue(SubSeq(ds, 1, Len(ds) - 1)) + DigitVal(ds[Len(ds)])

\* the length of the run of digits before the first of the positions `stop`
RunBefore(s, stop) == IF stop = {} THEN Len(s) ELSE SetMin(stop) - 1

\* the length of the longest run of digits s starts with
DigitRun(s) == RunBefore(s, {i \in 1..Len(s) : s[i] \notin Digits})

\* the longest run of digits s starts with
LeadingDigits(s) == SubSeq(s, 1, DigitRun(s))

\* a decimal n/d without a common factor ten
RECURSIVE Normal(_, _)
Normal(n, d) ==
  IF d > 1 /\ n % 10 = 0 THEN Normal(n \div 10, d \div 10) ELSE [n |-> n, d |-> d]

IsNegative(t) == Len(t) > 0 /\ t[1] = "-"

\* t without its sign
Unsigned(t) == IF Len(t) > 0 /\ t[1] \in {"-", "+"} THEN Tail(t) ELSE t

Signed(neg, m) == IF neg THEN -m ELSE m

\* the integer a sign and a run of digits stand for; NaN without a digit
IntOfDigits(neg, digits) ==
  IF Len(digits) = 0 THEN NaN ELSE [nan |-> FALSE, v |-> Signed(neg, DigitsValue(digits))]

\* Number.parseInt(s, 10): leading white space, a sign, the longest run of
\* digits; NaN without a digit.  The result is NaN or [nan |-> FALSE, v |-> Int].
ParseIntTrimmed(t) == IntOfDigits(IsNegative(t), LeadingDigits(Unsigned(t)))

ParseInt(s) == ParseIntTrimmed(Trim(s))

\* the decimal a sign, the digits before the point and the digits after it
\* stand for; NaN without a digit
Decimal(neg, intDigits, fracDigits) ==
  IF Len(intDigits) + Len(fracDigits) = 0 THEN NaN
  ELSE [nan |-> FALSE,
        v |-> Normal(Signed(neg, DigitsValue(intDigits) * Pow10(Len(fracDigits))
                                   + DigitsValue(fracDigits)),
                     Pow10(Len(fracDigits)))]

\* the digits after the point `rest` starts with, none without a point
FractionDigits(rest) ==
  IF Len(rest) > 0 /\ rest[1] = "." THEN LeadingDigits(Tail(rest)) ELSE <<>>

DecimalAt(neg, u, a) == Decimal(neg, SubSeq(u, 1, a), FractionDigits(SubSeq(u, a + 1, Len(u))))

ParseFloatUnsigned(neg, u) == DecimalAt(neg, u, DigitRun(u))

ParseFloatTrimmed(t) == ParseFloatUnsigned(IsNegative(t), Unsigned(t))

\* Number.parseFloat(s): leading white space, a sign, digits, optionally "."
\* and digits; NaN without a digit.  The result is NaN or
\* [nan |-> FALSE, v |-> [n, d]].
ParseFloat(s) == ParseFloatTrimmed(Trim(s))

-----------------------------------------------------------------------------
(* Outcomes: a returned value or a thrown Error *)

Ok(v) == [err |-> FALSE, val |-> v]

Throw(e) == [err |-> TRUE, error |-> e]

\* the first thrown outcome of a sequence of outcomes evaluated in order, or
\* Ok(v) when none throws
FirstThrow(outs, v) ==
  LET bad == {i \in 1..Len(outs) : outs[i].err}
  IN  IF bad = {} THEN Ok(v) ELSE outs[SetMin(bad)]

\* null, for number | null
Null == [null |-> TRUE]

\* undefined, for string | undefined: <<>> is undefined and <<s>> the string s
Undefined == <<>>

Defined(s) == <<s>>

-----------------------------------------------------------------------------
(* Field decoders *)

EXPECTED_HEADERS ==
  << "Keyword", "Search Volume", "CPC", "Competition", "Number of Results",
     "Trends", "Related Relevance", "Keywords SERP Features", "Intent",
     "Keyword Difficulty Index" >>

HeaderNames == {EXPECTED_HEADERS[i] : i \in 1..Len(EXPECTED_HEADERS)}

\* an integer as a number
IntAsNumber(p) == IF p.nan THEN NaN ELSE [nan |-> FALSE, v |-> [n |-> p.v, d |-> 1]]

\* if (!Number.isFinite(parsed)) throw ...; return parsed
FiniteOrThrow(parsed, raw, label, lineNumber) ==
  IF parsed.nan
  THEN Throw([kind |-> "InvalidValue", line |-> lineNumber, label |-> label, raw |-> raw])
  ELSE Ok(parsed.v)

parseNumber(raw, label, lineNumber, isInt) ==
  FiniteOrThrow(IF isInt THEN IntAsNumber(ParseInt(StripCommas(Trim(raw))))
                ELSE ParseFloat(StripCommas(Trim(raw))),
                raw, label, lineNumber)

\* faulty variant, a missing value read as zero
parseNumberOrZero(raw, label, lineNumber, isInt) ==
  IF raw = Undefined \/ Trim(raw[1]) = <<>> THEN Ok([n |-> 0, d |-> 1])
  ELSE parseNumber(raw[1], label, lineNumber, isInt)

\* if (raw == null || !raw.trim()) return null
parseNumberOrNull(raw, label, lineNumber, isInt) ==
  IF raw = Undefined \/ Trim(raw[1]) = <<>> THEN Ok(Null)
  ELSE parseNumber(raw[1], label, lineNumber, isInt)

\* the callback of raw.split(',').map applied to the pieces in order: the
\* first piece that is no number throws
EntriesOrThrow(pieces, vals, bad, label, lineNumber) ==
  IF bad = {} THEN Ok([i \in 1..Len(pieces) |-> vals[i].v])
  ELSE Throw([kind |-> "InvalidListEntry", line |-> lineNumber, label |-> label,
              raw |-> pieces[SetMin(bad)]])

Entries(pieces, vals, label, lineNumber) ==
  EntriesOrThrow(pieces, vals, {i \in 1..Len(pieces) : vals[i].nan}, label, lineNumber)

IntEntries(pieces, label, lineNumber) ==
  Entries(pieces, [i \in 1..Len(pieces) |-> ParseInt(Trim(pieces[i]))], label, lineNumber)

FloatEntries(pieces, label, lineNumber) ==
  Entries(pieces, [i \in 1..Len(pieces) |-> ParseFloat(Trim(pieces[i]))], label, lineNumber)

parseIntList(raw, label, lineNumber) ==
  IF Trim(raw) = <<>> THEN Ok(<<>>) ELSE IntEntries(Split(raw, ","), label, lineNumber)

parseFloatList(raw, label, lineNumber) ==
  IF Trim(raw) = <<>> THEN Ok(<<>>) ELSE FloatEntries(Split(raw, ","), label, lineNumber)

-----------------------------------------------------------------------------
(* Record decoder and dataset parser *)

\* Array.prototype.sort((a, b) => a - b) on integers: insertion sort
RECURSIVE InsertInt(_, _)
InsertInt(sorted, x) ==
  IF Len(sorted) = 0 THEN <<x>>
  ELSE IF x < Head(sorted) THEN <<x>> \o sorted
  ELSE <<Head(sorted)>> \o InsertInt(Tail(sorted), x)

\* faulty variant, a code that occurs twice is kept once
SortIntsDistinct(s) ==
  [k \in 1..Cardinality({s[i] : i \in 1..Len(s)}) |-> Kth({s[i] : i \in 1..Len(s)}, k)]

RECURSIVE SortInts(_)
SortInts(s) ==
  IF Len(s) = 0 THEN <<>> ELSE InsertInt(SortInts(SubSeq(s, 1, Len(s) - 1)), s[Len(s)])

\* faulty variant, the upper limit only: Math.min(1, value)
ClampAbove(value) == IF value.n > value.d THEN [n |-> 1, d |-> 1] ELSE value

\* Math.max(0, Math.min(1, value))
Clamp01(value) ==
  IF value.n < 0 THEN [n |-> 0, d |-> 1]
  ELSE IF value.n > value.d THEN [n |-> 1, d |-> 1]
  ELSE value

TrimAll(cells) == [i \in 1..Len(cells) |-> Trim(cells[i])]

\* the lines the parser works on: split, each trimmed, the empty ones dropped
NonBlankLines(text) == SelectSeq(TrimAll(SplitLines(text)), LAMBDA l : l # <<>>)

\* faulty variant, the header cells compared as written
HeaderCellsAsWritten(headerLine) == Split(headerLine, ";")

\* the header cells, each trimmed
HeaderCells(headerLine) == TrimAll(Split(headerLine, ";"))

\* headerIndex: recognized column name -> zero-based position; a later cell
\* of the same name overwrites an earlier one
HeaderIndex(headers) ==
  [h \in {e \in HeaderNames : \E i \in 1..Len(headers) : headers[i] = <<e>>} |->
     SetMax({i \in 1..Len(headers) : headers[i] = <<h>>}) - 1]

\* read(header): cols[idx], undefined for a column not in the header and
\* for a position past the end of the line
ReadCell(headerIndex, cols, header) ==
  IF header \notin DOMAIN headerIndex THEN Undefined
  ELSE IF headerIndex[header] + 1 > Len(cols) THEN Undefined
  ELSE Defined(cols[headerIndex[header] + 1])

\* read(header) ?? ''
OrEmpty(raw) == IF raw = Undefined THEN <<>> ELSE raw[1]

\* the line number error messages carry for the data line at rowIndex
LineNumber(rowIndex) == rowIndex + 2

\* faulty variant, the id taken from the line number
RowIdFromLineNumber(rowIndex) == rowIndex + 2

\* the id of the row made from the data line at rowIndex
RowId(rowIndex) == rowIndex + 1

\* faulty variant, only a list that is too short is refused
TrendsLengthTooShort(trends) == Len(trends) # 0 /\ Len(trends) < 12

\* trends.length && trends.length !== 12
TrendsLengthWrong(trends) == Len(trends) # 0 /\ Len(trends) # 12

\* if (trends.length && trends.length !== 12) throw ...
CheckTrendsLength(trends, lineNumber) ==
  IF ~trends.err /\ TrendsLengthWrong(trends.val)
  THEN Throw([kind |-> "TrendsLength", line |-> lineNumber])
  ELSE trends

\* trendsRaw != null ? parseFloatList(trendsRaw, 'Trends', lineNumber) : [],
\* and the length check
DecodeTrends(trendsRaw, lineNumber) ==
  CheckTrendsLength(IF trendsRaw # Undefined
                    THEN parseFloatList(trendsRaw[1], "Trends", lineNumber)
                    ELSE Ok(<<>>),
                    lineNumber)

\* the row object, or the first throw among the fields in the order they are
\* evaluated: trends, searchVolume, cpc, competition, numberOfResults,
\* relatedRelevance, serpFeatures, intentCodes, kd
RowOrThrow(rowIndex, keyword, fields) ==
  IF \E i \in 1..Len(fields) : fields[i].err THEN FirstThrow(fields, TRUE)
  ELSE Ok([ id |-> RowId(rowIndex),
            keyword |-> keyword,
            searchVolume |-> fields[2].val,
            cpc |-> fields[3].val,
            competition |-> fields[4].val,
            numberOfResults |-> fields[5].val,
            trends |-> [i \in 1..Len(fields[1].val) |-> Clamp01(fields[1].val[i])],
            relatedRelevance |-> fields[6].val,
            serpFeatures |-> SortInts(fields[7].val),
            intentCodes |-> SortInts(fields[8].val),
            kd |-> fields[9].val ])

DecodeCells(cols, rowIndex, lineNumber, headerIndex) ==
  RowOrThrow(rowIndex, Trim(OrEmpty(ReadCell(headerIndex, cols, "Keyword"))),
    << DecodeTrends(ReadCell(headerIndex, cols, "Trends"), lineNumber),
       parseNumberOrNull(ReadCell(headerIndex, cols, "Search Volume"), "Search Volume",
                         lineNumber, TRUE),
       parseNumberOrNull(ReadCell(headerIndex, cols, "CPC"), "CPC", lineNumber, FALSE),
       parseNumberOrNull(ReadCell(headerIndex, cols, "Competition"), "Competition",
                         lineNumber, FALSE),
       parseNumberOrNull(ReadCell(headerIndex, cols, "Number of Results"),
                         "Number of Results", lineNumber, TRUE),
       parseNumberOrNull(ReadCell(headerIndex, cols, "Related Relevance"),
                         "Related Relevance", lineNumber, FALSE),
       parseIntList(OrEmpty(ReadCell(headerIndex, cols, "Keywords SERP Features")),
                    "Keywords SERP Features", lineNumber),
       parseIntList(OrEmpty(ReadCell(headerIndex, cols, "Intent")), "Intent", lineNumber),
       parseNumberOrNull(ReadCell(headerIndex, cols, "Keyword Difficulty Index"),
                         "Keyword Difficulty Index", lineNumber, TRUE) >>)

\* the callback of lines.slice(1).map: one data line to one KeywordRow
DecodeRow(line, rowIndex, headerIndex) ==
  DecodeCells(Split(line, ";"), rowIndex, LineNumber(rowIndex), headerIndex)

\* faulty variant, best effort: a line that cannot be decoded is left out
RECURSIVE MapRowsSkipping(_, _, _, _)
SkipOrAppend(dataLines, rowIndex, headerIndex, done, out) ==
  MapRowsSkipping(dataLines, rowIndex + 1, headerIndex,
                  IF out.err THEN done ELSE Append(done, out.val))

MapRowsSkipping(dataLines, rowIndex, headerIndex, done) ==
  IF rowIndex >= Len(dataLines) THEN Ok(done)
  ELSE SkipOrAppend(dataLines, rowIndex, headerIndex, done,
                    DecodeRow(dataLines[rowIndex + 1], rowIndex, headerIndex))

\* lines.slice(1).map(...): the data lines are decoded in order, from
\* rowIndex on; the first throw ends the map
RECURSIVE MapRows(_, _, _, _)
ThrowOrAppend(dataLines, rowIndex, headerIndex, done, out) ==
  IF out.err THEN out
  ELSE MapRows(dataLines, rowIndex + 1, headerIndex, Append(done, out.val))

MapRows(dataLines, rowIndex, headerIndex, done) ==
  IF rowIndex >= Len(dataLines) THEN Ok(done)
  ELSE ThrowOrAppend(dataLines, rowIndex, headerIndex, done,
                     DecodeRow(dataLines[rowIndex + 1], rowIndex, headerIndex))

\* faulty variant, any recognized column will do
HasSomeColumn(availableHeaders) == availableHeaders # {}

\* availableHeaders.has('Keyword')
HasKeywordColumn(availableHeaders) == "Keyword" \in availableHeaders

\* return { rows, availableHeaders }
TableOrThrow(rows, availableHeaders) ==
  IF rows.err THEN rows ELSE Ok([rows |-> rows.val, availableHeaders |-> availableHeaders])

\* the parse once the header line is indexed
ParseIndexed(lines, headerIndex) ==
  IF ~HasKeywordColumn(DOMAIN headerIndex) THEN Throw([kind |-> "MissingKeyword"])
  ELSE IF Len(lines) = 1 THEN Ok([rows |-> <<>>, availableHeaders |-> DOMAIN headerIndex])
  ELSE TableOrThrow(MapRows(Tail(lines), 0, headerIndex, <<>>), DOMAIN headerIndex)

\* faulty variant, a text without a line is refused for its missing header
ParseLinesRefusingEmpty(lines) ==
  IF Len(lines) = 0 THEN Throw([kind |-> "MissingKeyword"])
  ELSE ParseIndexed(lines, HeaderIndex(HeaderCells(lines[1])))

\* if (!lines.length) return ...; headers; headerIndex
ParseLines(lines) ==
  IF Len(lines) = 0 THEN Ok([rows |-> <<>>, availableHeaders |-> HeaderNames])
  ELSE ParseIndexed(lines, HeaderIndex(HeaderCells(lines[1])))

parseSemrushText(text) == ParseLines(NonBlankLines(text))

-----------------------------------------------------------------------------
(* The demo dataset the component starts with *)

DemoHeader ==
  << "Keyword", ";", "Search Volume", ";", "CPC", ";", "Competition", ";",
     "Number of Results", ";", "Trends", ";", "Related Relevance", ";",
     "Keywords SERP Features", ";", "Intent", ";", "Keyword Difficulty Index" >>

DemoRow1 ==
  << "digital", " ", "marketing", " ", "tools", ";", "2", "7", "1", "0", "0", ";", "4",
     ".", "8", "0", ";", "0", ".", "7", "3", ";", "5", "3", "4", "0", "0", "0", "0",
     "0", ";", "0", ".", "4", "4", ",", "0", ".", "4", "9", ",", "0", ".", "5", "2",
     ",", "0", ".", "5", "5", ",", "0", ".", "5", "8", ",", "0", ".", "6", "3", ",",
     "0", ".", "6", "1", ",", "0", ".", "6", "7", ",", "0", ".", "7", "0", ",", "0",
     ".", "7", "4", ",", "0", ".", "7", "6", ",", "0", ".", "7", "9", ";", "0", ".",
     "9", "2", ";", "2", ",", "4", ",", "7", ";", "1", ",", "3", ";", "5", "8" >>

DemoRow2 ==
  << "best", " ", "seo", " ", "software", ";", "1", "2", "1", "0", "0", ";", "6", ".",
     "2", "5", ";", "0", ".", "8", "2", ";", "1", "8", "4", "0", "0", "0", ";", "0",
     ".", "3", "1", ",", "0", ".", "3", "5", ",", "0", ".", "4", "0", ",", "0", ".",
     "3", "7", ",", "0", ".", "4", "5", ",", "0", ".", "4", "8", ",", "0", ".", "5",
     "2", ",", "0", ".", "5", "4", ",", "0", ".", "5", "6", ",", "0", ".", "5", "9",
     ",", "0", ".", "6", "1", ",", "0", ".", "6", "3", ";", "0", ".", "8", "7", ";",
     "1", ",", "2", ",", "5", ",", "9", ";", "1", ";", "6", "4" >>

DemoRow3 ==
  << "what", " ", "is", " ", "semrush", ";", "5", "4", "0", "0", ";", "1", ".", "2",
     "0", ";", "0", ".", "2", "4", ";", "6", "9", "0", "0", "0", "0", "0", ";", "0",
     ".", "5", "0", ",", "0", ".", "5", "2", ",", "0", ".", "4", "8", ",", "0", ".",
     "4", "7", ",", "0", ".", "4", "9", ",", "0", ".", "5", "3", ",", "0", ".", "5",
     "8", ",", "0", ".", "6", "2", ",", "0", ".", "6", "0", ",", "0", ".", "6", "1",
     ",", "0", ".", "6", "4", ",", "0", ".", "6", "6", ";", "0", ".", "8", "0", ";",
     "3", ",", "6", ";", "0", ";", "2", "2" >>

DemoRow4 ==
  << "local", " ", "seo", " ", "checklist", ";", "3", "6", "0", "0", ";", "3", ".",
     "0", "5", ";", "0", ".", "5", "5", ";", "9", "8", "0", "0", "0", "0", ";", "0",
     ".", "2", "7", ",", "0", ".", "2", "9", ",", "0", ".", "3", "4", ",", "0", ".",
     "3", "3", ",", "0", ".", "3", "9", ",", "0", ".", "4", "3", ",", "0", ".", "4",
     "7", ",", "0", ".", "4", "5", ",", "0", ".", "4", "9", ",", "0", ".", "5", "3",
     ",", "0", ".", "5", "7", ",", "0", ".", "6", "0", ";", "0", ".", "7", "4", ";",
     "4", ",", "8", ";", "0", ",", "1", ";", "3", "9" >>

DemoRow5 ==
  << "buy", " ", "seo", " ", "audit", ";", "1", "9", "0", "0", ";", "9", ".", "4", "0",
     ";", "0", ".", "8", "8", ";", "1", "2", "4", "0", "0", "0", ";", "0", ".", "2",
     "2", ",", "0", ".", "2", "5", ",", "0", ".", "2", "8", ",", "0", ".", "3", "0",
     ",", "0", ".", "3", "5", ",", "0", ".", "3", "7", ",", "0", ".", "4", "1", ",",
     "0", ".", "4", "6", ",", "0", ".", "5", "0", ",", "0", ".", "5", "6", ",", "0",
     ".", "6", "0", ",", "0", ".", "6", "4", ";", "0", ".", "6", "8", ";", "1", ",",
     "5", ",", "7", ";", "3", ";", "7", "1" >>

DemoRow6 ==
  << "semrush", " ", "login", ";", "1", "4", "8", "0", "0", ";", "0", ".", "1", "8",
     ";", "0", ".", "0", "5", ";", "2", "3", "0", "0", "0", "0", "0", "0", ";", "0",
     ".", "6", "6", ",", "0", ".", "6", "4", ",", "0", ".", "6", "5", ",", "0", ".",
     "6", "8", ",", "0", ".", "7", "1", ",", "0", ".", "6", "9", ",", "0", ".", "7",
     "2", ",", "0", ".", "7", "4", ",", "0", ".", "7", "5", ",", "0", ".", "7", "7",
     ",", "0", ".", "7", "9", ",", "0", ".", "8", "2", ";", "0", ".", "9", "5", ";",
     "0", ",", "7", ";", "2", ";", "1", "6" >>

DEMO_DATA ==
  Join(<< DemoHeader, DemoRow1, DemoRow2, DemoRow3, DemoRow4, DemoRow5, DemoRow6 >>, <<"\n">>)

-----------------------------------------------------------------------------
(* Query engine: the computed views *)

\* String.prototype.toLowerCase on the atoms that have an upper-case form
LowerAtom(c) ==
  CASE c = "SEO" -> "seo" [] c = "Tool" -> "tool" [] c = "Plan" -> "plan" [] OTHER -> c

ToLowerCase(s) == [i \in 1..Len(s) |-> LowerAtom(s[i])]

\* String.prototype.includes
Includes(hay, needle) ==
  \E i \in 0..(Len(hay) - Len(needle)) : SubSeq(hay, i + 1, i + Len(needle)) = needle

\* Array.prototype.includes on a list of codes
ListIncludes(list, x) == \E i \in 1..Len(list) : list[i] = x

\* faulty variant, a row with any one of the active tags passes
RowMatchesAnyTag(row, debounced, onlySelected, selected, features) ==
  /\ ToLowerCase(Trim(debounced)) = <<>>
       \/ Includes(ToLowerCase(row.keyword), ToLowerCase(Trim(debounced)))
  /\ ~onlySelected \/ row.id \in selected
  /\ features = {} \/ \E feature \in features : ListIncludes(row.serpFeatures, feature)

\* faulty variant, the keyword compared with the text as typed, case included
RowMatchesCaseSensitive(row, debounced, onlySelected, selected, features) ==
  /\ Trim(debounced) = <<>> \/ Includes(row.keyword, Trim(debounced))
  /\ ~onlySelected \/ row.id \in selected
  /\ features = {} \/ \A feature \in features : ListIncludes(row.serpFeatures, feature)

\* faulty variant, a selection restricts the rows whatever the flag is
RowMatchesSelectionAlways(row, debounced, onlySelected, selected, features) ==
  /\ ToLowerCase(Trim(debounced)) = <<>>
       \/ Includes(ToLowerCase(row.keyword), ToLowerCase(Trim(debounced)))
  /\ selected = {} \/ row.id \in selected
  /\ features = {} \/ \A feature \in features : ListIncludes(row.serpFeatures, feature)

\* the callback of parsedRows.value.filter
RowMatches(row, debounced, onlySelected, selected, features) ==
  LET query == ToLowerCase(Trim(debounced))
      matchesKeyword == query = <<>> \/ Includes(ToLowerCase(row.keyword), query)
      matchesSelected == ~onlySelected \/ row.id \in selected
      matchesFeatures ==
        features = {} \/ \A feature \in features : ListIncludes(row.serpFeatures, feature)
  IN  matchesKeyword /\ matchesSelected /\ matchesFeatures

filteredRows(table, debounced, onlySelected, selected, features) ==
  SelectSeq(table, LAMBDA row : RowMatches(row, debounced, onlySelected, selected, features))

\* the collation order of the atoms keywords are made of; an atom and its
\* upper-case form have the same place
AtomOrder ==
  << " ", "audit", "best", "buy", "checklist", "digital", "is", "local", "login",
     "marketing", "semrush", "seo", "software", "tool", "tools", "what" >>

AtomRank(c) ==
  IF \E i \in 1..Len(AtomOrder) : AtomOrder[i] = LowerAtom(c)
  THEN CHOOSE i \in 1..Len(AtomOrder) : AtomOrder[i] = LowerAtom(c)
  ELSE 0

\* String.prototype.localeCompare: the first position where the letters
\* differ decides, a proper prefix comes first; strings with the same letters
\* are ordered by case, lower case first
localeCompare(a, b) ==
  LET diff == {i \in 1..Len(a) : i > Len(b) \/ AtomRank(a[i]) # AtomRank(b[i])}
      caseDiff == {i \in 1..Len(a) : i <= Len(b) /\ a[i] # b[i]}
  IN  IF diff # {}
      THEN LET i == SetMin(diff)
           IN  IF i > Len(b) THEN 1
               ELSE IF AtomRank(a[i]) < AtomRank(b[i]) THEN -1 ELSE 1
      ELSE IF Len(a) < Len(b) THEN -1
      ELSE IF caseDiff = {} THEN 0
      ELSE IF a[SetMin(caseDiff)] = LowerAtom(a[SetMin(caseDiff)]) THEN -1 ELSE 1

compareIntent(a, b) ==
  LET limit == IF Len(a) > Len(b) THEN Len(a) ELSE Len(b)
      av(i) == IF i <= Len(a) THEN a[i] ELSE -1
      bv(i) == IF i <= Len(b) THEN b[i] ELSE -1
      diff == {i \in 1..limit : av(i) # bv(i)}
  IN  IF diff = {} THEN 0 ELSE av(SetMin(diff)) - bv(SetMin(diff))

\* faulty variant, a row without a value after every row with one
compareNullsLast(left, right) ==
  IF left = Null /\ right = Null THEN 0
  ELSE IF left = Null THEN 1
  ELSE IF right = Null THEN -1
  ELSE left.n * right.d - right.n * left.d

compareNullableNumber(left, right) ==
  IF left = Null /\ right = Null THEN 0
  ELSE IF left = Null THEN -1
  ELSE IF right = Null THEN 1
  ELSE left.n * right.d - right.n * left.d

compareRows(a, b, key) ==
  CASE key = "keyword" -> localeCompare(a.keyword, b.keyword)
    [] key = "intent" -> compareIntent(a.intentCodes, b.intentCodes)
    [] key = "volume" -> compareNullableNumber(a.searchVolume, b.searchVolume)
    [] key = "kd" -> compareNullableNumber(a.kd, b.kd)
    [] key = "cpc" -> compareNullableNumber(a.cpc, b.cpc)
    [] key = "competition" -> compareNullableNumber(a.competition, b.competition)
    [] key = "results" -> compareNullableNumber(a.numberOfResults, b.numberOfResults)
    [] OTHER -> 0

\* faulty variant, the direction applied to the index as well
compareEntriesReversingTies(a, b, key, dir) ==
  LET cmp == compareRows(a.row, b.row, key)
      tied == IF cmp = 0 THEN a.index - b.index ELSE cmp
  IN  IF dir = "asc" THEN tied ELSE -tied

\* the comparator sortedRows passes to Array.prototype.sort, on {row, index}
\* entries
compareEntries(a, b, key, dir) ==
  LET cmp == compareRows(a.row, b.row, key)
  IN  IF cmp = 0 THEN a.index - b.index
      ELSE IF dir = "asc" THEN cmp ELSE -cmp

\* filteredRows.map(...).sort(...).map(...): Array.prototype.sort with that
\* comparator (SortSeq of the TLC module takes "comes before")
sortedRows(filtered, key, dir) ==
  LET entries == [i \in 1..Len(filtered) |-> [row |-> filtered[i], index |-> i - 1]]
      sorted == SortSeq(entries, LAMBDA a, b : compareEntries(a, b, key, dir) < 0)
  IN  [i \in 1..Len(sorted) |-> sorted[i].row]

\* featureStats: the codes that occur in some row's serpFeatures
featureIds(table) ==
  UNION {{table[i].serpFeatures[j] : j \in 1..Len(table[i].serpFeatures)} : i \in 1..Len(table)}

-----------------------------------------------------------------------------
(* The session: state of the component *)

VARIABLES
  rows,                 \* ref<KeywordRow[]>: the loaded table
  availableHeaders,     \* ref<Set<HeaderName>>: the columns of the loaded file
  selectedIds,          \* reactive Set<number>
  selectedOnly,         \* ref<boolean>
  keywordInput,         \* ref<string>: the raw text of the search box
  debouncedKeyword,     \* ref<string>: the applied filter text
  searchDebounce,       \* the handle of the timeout the watcher started last
  timers,               \* the timeouts started by the watcher that are still pending
  selectedSerpFeatures, \* reactive Set<number>: the active tag filters
  parseError,           \* ref<string>
  loadedFileName,       \* ref<string>
  sortKey,
  sortDir,
  loads,                \* the file reads onFileChange started, in the order started
  text,                 \* parser harness: the input text
  parsed,               \* parser harness: the outcome of parseSemrushText(text)
  showSaveNotesModal,   \* ref<boolean>: the save-notes dialog is open
  notesText,            \* SaveTextModal: ref `text`, the notes in the textarea
  isSaving,             \* SaveTextModal: ref<boolean>
  saving,               \* SaveTextModal: the handleSave call, awaiting or how it ended
  saved                 \* the payloads of the 'saved' events, as onNotesSaved got them

vars ==
  << rows, availableHeaders, selectedIds, selectedOnly, keywordInput, debouncedKeyword,
     searchDebounce, timers, selectedSerpFeatures, parseError, loadedFileName, sortKey,
     sortDir, loads, text, parsed, showSaveNotesModal, notesText, isSaving, saving, saved >>

queryVars ==
  << selectedIds, selectedOnly, keywordInput, debouncedKeyword, searchDebounce, timers,
     selectedSerpFeatures, sortKey, sortDir >>

harnessVars == << text, parsed >>

tableVars == << rows, availableHeaders, parseError, loadedFileName, loads >>

notesVars == << showSaveNotesModal, notesText, isSaving, saving, saved >>

\* parseError = ''
NoError == [kind |-> "none"]

\* searchDebounce: undefined, or the handle setTimeout returned
NoTimer == [armed |-> FALSE]

Timer(id) == [armed |-> TRUE, id |-> id]

\* a pending timeout: its callback will assign `value` to debouncedKeyword
Timeout(id, value) == [id |-> id, value |-> value]

\* clearTimeout(handle): the timeout of that handle is no longer pending
clearTimeout(handle, pending) ==
  {t \in pending : handle = NoTimer \/ t.id # handle.id}

\* the handle of the next timeout: one that no pending timeout has
FreshId(pending) ==
  SetMin((1..(Cardinality(pending) + 1)) \ {t.id : t \in pending})

\* searchDebounce = setTimeout(() => { debouncedKeyword.value = value }, 200)
setTimeout(value, id, pending) ==
  [handle |-> Timer(id), timers |-> pending \cup {Timeout(id, value)}]

\* the parser harness before parseSemrushText has run
NotParsed == [pending |-> TRUE]

initialParsed == parseSemrushText(DEMO_DATA)

visibleRows ==
  sortedRows(filteredRows(rows, debouncedKeyword, selectedOnly, selectedIds,
                          selectedSerpFeatures),
             sortKey, sortDir)

\* the ids of the rows of a list
RowIds(list) == {list[i].id : i \in 1..Len(list)}

visibleIds == RowIds(visibleRows)

\* a watcher that starts the new timeout without clearing the one it holds
WatchKeywordInputNotClearing(old, new, handle, pending) ==
  IF new # old
    THEN setTimeout(new, FreshId(pending), pending)
    ELSE [handle |-> handle, timers |-> pending]

\* watch(keywordInput, ...): runs when a handler has changed the value; it
\* clears the timeout it holds and starts one for the new value
WatchKeywordInput(old, new, handle, pending) ==
  IF new # old
    THEN setTimeout(new, FreshId(clearTimeout(handle, pending)), clearTimeout(handle, pending))
    ELSE [handle |-> handle, timers |-> pending]

-----------------------------------------------------------------------------
(* Inputs of the session *)

\* how many files are picked in one run
MaxLoads == 2

FileA ==
  [ name |-> "a.txt",
    text |-> << "Keyword", ";", "Keywords SERP Features", ";", "Keyword Difficulty Index", "\n",
                "seo", " ", "tool", ";", "7", ",", "2", ";", "3", "0", "\n",
                "\n",
                "SEO", " ", "audit", ";", ";" >> ]

FileB ==
  [ name |-> "b.txt",
    text |-> << "Intent", ";", "Keyword", "\r", "\n",
                "1", ";", "buy", " ", "seo" >> ]

FileBad ==
  [ name |-> "bad.txt",
    text |-> << "Keyword", ";", "Trends", "\n",
                "seo", ";", "1", ",", "1", ",", "1", ",", "1", ",", "1" >> ]

Files == {FileA, FileB, FileBad}

\* what parseSemrushText makes of the text of each file the user can pick
FileTables == [file \in Files |-> parseSemrushText(file.text)]

\* what the user types into the search box
KeywordInputs == {<<>>, <<"login">>}

\* the legend entries and row checkboxes the user clicks
FeatureInputs == {0}

ClickIds == {6}

SortInputs == {"keyword"}

-----------------------------------------------------------------------------
(* Initial state: the component after setup *)

InitSession ==
  /\ rows = initialParsed.val.rows
  /\ availableHeaders = initialParsed.val.availableHeaders
  /\ selectedIds = {}
  /\ selectedOnly = FALSE
  /\ keywordInput = <<>>
  /\ debouncedKeyword = <<>>
  /\ searchDebounce = NoTimer
  /\ timers = {}
  /\ showSaveNotesModal = FALSE
  /\ notesText = <<>>
  /\ isSaving = FALSE
  /\ saving = [at |-> "idle"]
  /\ saved = <<>>
  /\ selectedSerpFeatures = {}
  /\ parseError = NoError
  /\ loadedFileName = "Demo data"
  /\ sortKey = "volume"
  /\ sortDir = "desc"
  /\ loads = <<>>

Init ==
  /\ InitSession
  /\ text = <<>>
  /\ parsed = NotParsed

-----------------------------------------------------------------------------
(* Loading a file *)

\* onFileChange up to file.text(): the error is cleared and the read starts
OnFileChange(file) ==
  /\ Len(loads) < MaxLoads
  /\ parseError' = NoError
  /\ loads' = Append(loads, [file |-> file, state |-> "reading"])
  /\ UNCHANGED << rows, availableHeaders, loadedFileName >>
  /\ UNCHANGED queryVars
  /\ UNCHANGED harnessVars
  /\ UNCHANGED notesVars

\* a .then callback that swaps the table and forgets to reset the selection
\* and the tag filters
InstallParsedKeepingSelection(file, table) ==
  /\ rows' = table.rows
  /\ availableHeaders' = table.availableHeaders
  /\ keywordInput' = <<>>
  /\ debouncedKeyword' = <<>>
  /\ searchDebounce' = WatchKeywordInput(keywordInput, <<>>, searchDebounce, timers).handle
  /\ timers' = WatchKeywordInput(keywordInput, <<>>, searchDebounce, timers).timers
  /\ loadedFileName' = file.name
  /\ UNCHANGED << selectedIds, selectedSerpFeatures, selectedOnly, parseError, sortKey, sortDir >>

\* the .then callback once parseSemrushText has returned
InstallParsed(file, table) ==
  /\ rows' = table.rows
  /\ availableHeaders' = table.availableHeaders
  /\ selectedIds' = {}
  /\ selectedSerpFeatures' = {}
  /\ keywordInput' = <<>>
  /\ debouncedKeyword' = <<>>
  /\ searchDebounce' = WatchKeywordInput(keywordInput, <<>>, searchDebounce, timers).handle
  /\ timers' = WatchKeywordInput(keywordInput, <<>>, searchDebounce, timers).timers
  /\ loadedFileName' = file.name
  /\ UNCHANGED << selectedOnly, parseError, sortKey, sortDir >>

\* a .catch callback that also drops the table of the previous load
ShowErrorClearingTable(error) ==
  /\ parseError' = error
  /\ rows' = <<>>
  /\ availableHeaders' = {}
  /\ UNCHANGED loadedFileName
  /\ UNCHANGED queryVars

\* the .catch callback
ShowError(error) ==
  /\ parseError' = error
  /\ UNCHANGED << rows, availableHeaders, loadedFileName >>
  /\ UNCHANGED queryVars

\* file.text() of the i-th read resolves (the files of Files are readable):
\* the .then callback, and the .catch callback when the parser throws
FileTextResolved(i) ==
  /\ loads[i].state = "reading"
  /\ LET out == FileTables[loads[i].file]
     IN  IF ~out.err
         THEN /\ InstallParsed(loads[i].file, out.val)
              /\ loads' = [loads EXCEPT ![i].state = "installed"]
         ELSE /\ ShowError(out.error)
              /\ loads' = [loads EXCEPT ![i].state = "failed"]
  /\ UNCHANGED harnessVars
  /\ UNCHANGED notesVars

-----------------------------------------------------------------------------
(* Selection, filters and sort *)

\* the @change handler of a row's checkbox; only visible rows have one
ToggleRow(id) ==
  /\ id \in visibleIds
  /\ selectedIds' = IF id \in selectedIds THEN selectedIds \ {id} ELSE selectedIds \cup {id}
  /\ UNCHANGED << rows, availableHeaders, selectedOnly, keywordInput, debouncedKeyword,
                  searchDebounce, timers, selectedSerpFeatures, parseError, loadedFileName,
                  sortKey, sortDir, loads >>
  /\ UNCHANGED harnessVars
  /\ UNCHANGED notesVars

toggleAllVisible(checked) ==
  /\ selectedIds' = IF checked THEN selectedIds \cup visibleIds ELSE selectedIds \ visibleIds
  /\ UNCHANGED << rows, availableHeaders, selectedOnly, keywordInput, debouncedKeyword,
                  searchDebounce, timers, selectedSerpFeatures, parseError, loadedFileName,
                  sortKey, sortDir, loads >>
  /\ UNCHANGED harnessVars
  /\ UNCHANGED notesVars

\* the button is rendered while something is selected
clearSelection ==
  /\ selectedIds # {}
  /\ selectedIds' = {}
  /\ UNCHANGED << rows, availableHeaders, selectedOnly, keywordInput, debouncedKeyword,
                  searchDebounce, timers, selectedSerpFeatures, parseError, loadedFileName,
                  sortKey, sortDir, loads >>
  /\ UNCHANGED harnessVars
  /\ UNCHANGED notesVars

\* v-model="selectedOnly" on the checkbox
ToggleSelectedOnly ==
  /\ selectedOnly' = ~selectedOnly
  /\ UNCHANGED << rows, availableHeaders, selectedIds, keywordInput, debouncedKeyword,
                  searchDebounce, timers, selectedSerpFeatures, parseError, loadedFileName,
                  sortKey, sortDir, loads >>
  /\ UNCHANGED harnessVars
  /\ UNCHANGED notesVars

\* the column a sort button belongs to; the button is rendered with the column
SortColumn(key) ==
  CASE key = "keyword" -> "Keyword"
    [] key = "intent" -> "Intent"
    [] key = "volume" -> "Search Volume"
    [] key = "kd" -> "Keyword Difficulty Index"
    [] key = "cpc" -> "CPC"
    [] key = "competition" -> "Competition"
    [] key = "results" -> "Number of Results"

setSort(next) ==
  /\ next = "keyword" \/ SortColumn(next) \in availableHeaders
  /\ IF sortKey # next
     THEN sortKey' = next /\ sortDir' = "asc"
     ELSE sortKey' = sortKey /\ sortDir' = IF sortDir = "asc" THEN "desc" ELSE "asc"
  /\ UNCHANGED << rows, availableHeaders, selectedIds, selectedOnly, keywordInput,
                  debouncedKeyword, searchDebounce, timers, selectedSerpFeatures, parseError,
                  loadedFileName, loads >>
  /\ UNCHANGED harnessVars
  /\ UNCHANGED notesVars

\* a legend entry (a code of the table, with the column present) or a chip
\* (an active filter) is clicked
toggleFeatureFilter(featureId) ==
  /\ \/ "Keywords SERP Features" \in availableHeaders /\ featureId \in featureIds(rows)
     \/ featureId \in selectedSerpFeatures
  /\ selectedSerpFeatures' =
       IF featureId \in selectedSerpFeatures
       THEN selectedSerpFeatures \ {featureId}
       ELSE selectedSerpFeatures \cup {featureId}
  /\ UNCHANGED << rows, availableHeaders, selectedIds, selectedOnly, keywordInput,
                  debouncedKeyword, searchDebounce, timers, parseError, loadedFileName,
                  sortKey, sortDir, loads >>
  /\ UNCHANGED harnessVars
  /\ UNCHANGED notesVars

clearFilters ==
  /\ keywordInput' = <<>>
  /\ debouncedKeyword' = <<>>
  /\ searchDebounce' = WatchKeywordInput(keywordInput, <<>>, searchDebounce, timers).handle
  /\ timers' = WatchKeywordInput(keywordInput, <<>>, searchDebounce, timers).timers
  /\ selectedOnly' = FALSE
  /\ selectedSerpFeatures' = {}
  /\ UNCHANGED << rows, availableHeaders, selectedIds, parseError, loadedFileName,
                  sortKey, sortDir, loads >>
  /\ UNCHANGED harnessVars
  /\ UNCHANGED notesVars

\* v-model="keywordInput": the user edits the search box
TypeKeyword(value) ==
  /\ value # keywordInput
  /\ keywordInput' = value
  /\ searchDebounce' = WatchKeywordInput(keywordInput, value, searchDebounce, timers).handle
  /\ timers' = WatchKeywordInput(keywordInput, value, searchDebounce, timers).timers
  /\ UNCHANGED << rows, availableHeaders, selectedIds, selectedOnly, debouncedKeyword,
                  selectedSerpFeatures, parseError, loadedFileName, sortKey, sortDir, loads >>
  /\ UNCHANGED harnessVars
  /\ UNCHANGED notesVars

\* a pending timeout fires, 200 ms after it was started; the handle stays
\* in searchDebounce
DebounceFires ==
  /\ \E t \in timers :
       /\ debouncedKeyword' = t.value
       /\ timers' = timers \ {t}
  /\ UNCHANGED << rows, availableHeaders, selectedIds, selectedOnly, keywordInput, searchDebounce,
                  selectedSerpFeatures, parseError, loadedFileName, sortKey, sortDir, loads >>
  /\ UNCHANGED harnessVars
  /\ UNCHANGED notesVars

Next ==
  \/ \E file \in Files : OnFileChange(file)
  \/ \E i \in 1..Len(loads) : FileTextResolved(i)
  \/ \E id \in ClickIds : ToggleRow(id)
  \/ \E checked \in BOOLEAN : toggleAllVisible(checked)
  \/ clearSelection
  \/ ToggleSelectedOnly
  \/ \E next \in SortInputs : setSort(next)
  \/ \E featureId \in FeatureInputs : toggleFeatureFilter(featureId)
  \/ clearFilters
  \/ \E value \in KeywordInputs : TypeKeyword(value)
  \/ DebounceFires

Spec == Init /\ [][Next]_vars

-----------------------------------------------------------------------------
(* Claims about loading, checked under Spec *)

\* the step completes the i-th load with the given result
Completes(i, state) ==
  /\ i \in 1..Len(loads)
  /\ loads[i].state = "reading"
  /\ loads' = [loads EXCEPT ![i].state = state]

AllLoadsFinished == \A i \in 1..Len(loads) : loads[i].state # "reading"

\* C1: a step in which a load fails leaves rows and availableHeaders as they
\* were; rows and availableHeaders change in no step but the one in which a
\* load succeeds, and are then the table and presence set of that load's
\* file: they are always those of the last load that succeeded, or the demo
\* data.
C1_FailedLoadKeepsTable ==
  [][ /\ (\E i \in 1..Len(loads) : Completes(i, "failed")) =>
           (rows' = rows /\ availableHeaders' = availableHeaders)
      /\ \A i \in 1..Len(loads) :
           Completes(i, "installed") =>
             /\ ~FileTables[loads[i].file].err
             /\ rows' = FileTables[loads[i].file].val.rows
             /\ availableHeaders' = FileTables[loads[i].file].val.availableHeaders
      /\ (rows' # rows \/ availableHeaders' # availableHeaders) =>
           \E i \in 1..Len(loads) : Completes(i, "installed") ]_vars

\* C1 witness: a load has failed after another one had succeeded, and the
\* table is still that of the load that succeeded
C1_Witness ==
  /\ Len(loads) = 2
  /\ loads[1] = [file |-> FileA, state |-> "installed"]
  /\ loads[2] = [file |-> FileBad, state |-> "failed"]
  /\ parseError.kind = "TrendsLength"
  /\ rows = FileTables[FileA].val.rows
  /\ availableHeaders = FileTables[FileA].val.availableHeaders

\* C2: once every load has finished, and the load initiated last has
\* succeeded, the table and presence set are those of the load initiated
\* last.
C2_LastInitiatedWins ==
  (Len(loads) >= 1 /\ AllLoadsFinished /\ loads[Len(loads)].state = "installed") =>
    /\ rows = FileTables[loads[Len(loads)].file].val.rows
    /\ availableHeaders = FileTables[loads[Len(loads)].file].val.availableHeaders

\* C3: the step in which a load succeeds replaces rows and availableHeaders
\* by those of the file and empties selectedIds and selectedSerpFeatures, all
\* in that one step, and leaves sortKey and sortDir as they were.
C3_InstallIsAtomic ==
  [][ \A i \in 1..Len(loads) :
        Completes(i, "installed") =>
          /\ rows' = FileTables[loads[i].file].val.rows
          /\ availableHeaders' = FileTables[loads[i].file].val.availableHeaders
          /\ selectedIds' = {}
          /\ selectedSerpFeatures' = {}
          /\ sortKey' = sortKey
          /\ sortDir' = sortDir ]_vars

\* C3 witness: a file is being read while rows are selected, a tag filter
\* is active and the sort is not the initial one: its success is the step of
\* the claim
C3_Witness ==
  /\ \E i \in 1..Len(loads) : loads[i].state = "reading" /\ ~FileTables[loads[i].file].err
  /\ selectedIds # {}
  /\ selectedSerpFeatures # {}
  /\ sortKey = "keyword"
  /\ sortDir = "desc"

\* the i-th row of the table has id i, and a row on display is the row of
\* the table with its id
ShownFromTable(shown, table) ==
  \A k \in 1..Len(shown) :
    /\ shown[k].id \in 1..Len(table)
    /\ table[shown[k].id] = shown[k]

IdsArePositions ==
  /\ \A i \in 1..Len(rows) : rows[i].id = i
  /\ ShownFromTable(visibleRows, rows)

\* C10: in every table the i-th row has id i (ids are unique and are 1..n),
\* the rows on display keep the ids of the table, and the rows change in no
\* step but the one in which a load succeeds: filter, sort and selection
\* operations leave every row and its id alone.
C10_IdsArePositions ==
  /\ []IdsArePositions
  /\ [][ rows' # rows => \E i \in 1..Len(loads) : Completes(i, "installed") ]_vars

\* C10 witness: the table of a file with a blank line between its two data
\* lines is on display, sorted by keyword, and its rows have ids 1 and 2
C10_Witness ==
  /\ rows = FileTables[FileA].val.rows
  /\ Len(rows) = 2
  /\ rows[2].id = 2
  /\ sortKey = "keyword" /\ sortDir = "asc"
  /\ Len(visibleRows) = 2
  /\ visibleRows[1].id = 2

-----------------------------------------------------------------------------
(* The parser on its own: parseSemrushText applied to a bounded set of texts *)

\* how many lines follow the header line at most
MaxDataLines == 2

\* k values "1", comma-separated
OnesList(k) == Join([i \in 1..k |-> <<"1">>], <<",">>)

\* a data line for the header LineHeader whose Trends cell has k values
TrendsLine(k) == <<"audit", ";", ";">> \o OnesList(k)

LineHeader ==
  << "Keyword", ";", "Search Volume", ";", "Trends", ";", "Keywords SERP Features", ";",
     "Intent" >>

\* another column order, padded cells, an unrecognized column, a CRLF ending
LineHeaderPadded == << "Trends", ";", " ", "Keyword", " ", ";", "x", "\r" >>

LineHeaderNoKeyword == << "Search Volume", ";", "Trends" >>

\* twelve Trends values inside and outside [0, 1], a thousands separator,
\* unsorted tag and intent lists with a duplicate and a padded piece
LineOk ==
  << "seo", " ", "tool", ";", "1", ",", "2", "0", "0", ";",
     "0", ".", "5", ",", "2", ",", "-", "1", ",", "1", ",", "0", ",", "1", ".", "5", ",",
     "0", ".", "2", "5", ",", "-", "0", ".", "5", ",", "1", ",", "0", ",", "3", ",", ".", "5",
     ";", "7", ",", " ", "2", ",", "7", ";", "3", ",", "1", ",", "3" >>

\* only the first cell
LineShort == << "SEO" >>

\* an empty first cell
LineEmptyFirst == << ";", "5" >>

\* a white-space second cell (the Keyword cell under LineHeaderPadded)
LineBlankSecond == OnesList(12) \o << ";", " ", ";", "x" >>

\* a Search Volume that is no number
LineBadValue == << "buy", ";", "x" >>

\* a tag list with a piece that is no number
LineBadEntry == << "login", ";", ";", ";", "7", ",", "x" >>

\* white-space Search Volume and tag cells, an empty Trends cell, an unsorted
\* intent list
LineBlankCells == << "buy", ";", " ", ";", ";", " ", ";", "3", ",", "1" >>

\* a tag list with a piece that starts with a number and goes on
LineTrailingText == << "what", ";", ";", ";", "7", "x", ",", "2" >>

HeaderCandidates == {LineHeader, LineHeaderPadded, LineHeaderNoKeyword}

DataCandidates ==
  { << " " >>, LineOk, LineShort, LineEmptyFirst, LineBlankSecond, LineBlankCells,
    LineBadValue, LineBadEntry, LineTrailingText, TrendsLine(0), TrendsLine(5), TrendsLine(11), TrendsLine(13) }

\* up to MaxDataLines lines, each one of the candidates
Blocks(candidates) == UNION {[1..n -> candidates] : n \in 0..MaxDataLines}

\* a header line, after an empty first line or not, and the lines after it;
\* and the texts of blank lines only
ParseInputs ==
  {Join(lead \o <<header>> \o block, <<"\n">>) :
     lead \in {<<>>, << <<>> >>}, header \in HeaderCandidates, block \in Blocks(DataCandidates)}
  \cup {Join(block, <<"\n">>) : block \in Blocks({<<>>, << " " >>, << "\r" >>})}

InitParse ==
  /\ InitSession
  /\ text \in ParseInputs
  /\ parsed = NotParsed

ParseText ==
  /\ parsed = NotParsed
  /\ parsed' = parseSemrushText(text)
  /\ UNCHANGED << rows, availableHeaders, parseError, loadedFileName, loads, text >>
  /\ UNCHANGED queryVars
  /\ UNCHANGED notesVars

NextParse == ParseText

SpecParse == InitParse /\ [][NextParse]_vars

-----------------------------------------------------------------------------
(* What the parser harness is asked about: the text as lines *)

\* the non-blank lines of the text, the header first
TextLines == NonBlankLines(text)

Parsed == parsed # NotParsed

\* the header cells as written
WrittenHeaderCells(lines) == Split(lines[1], ";")

\* the columns of the header line, as the parser indexes them
HeaderIndexOf(lines) == HeaderIndex(HeaderCells(lines[1]))

HasValidHeader(lines) == Len(lines) > 0 /\ "Keyword" \in DOMAIN HeaderIndexOf(lines)

\* how many data lines follow the header line
DataLineCount(lines) == IF Len(lines) = 0 THEN 0 ELSE Len(lines) - 1

\* the outcome of decoding the i-th data line on its own
LineOutcome(lines, i) == DecodeRow(lines[i + 1], i - 1, HeaderIndexOf(lines))

UndecodableLines(lines) == {i \in 1..DataLineCount(lines) : LineOutcome(lines, i).err}

\* the cell of the i-th data line under a column, Undefined when there is none
CellOf(lines, i, header) == ReadCell(HeaderIndexOf(lines), Split(lines[i + 1], ";"), header)

\* the position in the text (1-based, blank lines counted) of the k-th
\* non-blank line
PositionInText(k) ==
  LET raw == SplitLines(text)
  IN  Kth({i \in 1..Len(raw) : Trim(raw[i]) # <<>>}, k)

RowErrorKinds == {"InvalidValue", "InvalidListEntry", "TrendsLength"}

-----------------------------------------------------------------------------
(* Claims about the parser, checked under SpecParse *)

\* C4: for a text with a valid header and at least one data line, the parser
\* either returns one row per non-blank data line, the i-th row decoded from
\* the i-th data line, or throws the error of the first data line that cannot
\* be decoded; it never returns some of the lines only.
C4_AllRowsOrFirstError ==
  Parsed =>
    LET lines == TextLines
        bad == UndecodableLines(lines)
    IN  (HasValidHeader(lines) /\ DataLineCount(lines) >= 1) =>
          IF bad = {}
          THEN /\ ~parsed.err
               /\ Len(parsed.val.rows) = DataLineCount(lines)
               /\ \A i \in 1..DataLineCount(lines) :
                    parsed.val.rows[i] = LineOutcome(lines, i).val
          ELSE /\ parsed.err
               /\ parsed.error = LineOutcome(lines, SetMin(bad)).error

\* C4 witness: the parse has thrown the error of the second data line; the
\* line before it can be decoded
C4_Witness ==
  /\ Parsed /\ parsed.err
  /\ LET lines == TextLines
     IN  /\ HasValidHeader(lines)
         /\ DataLineCount(lines) = 2
         /\ UndecodableLines(lines) = {2}

\* C5: a header without a Keyword cell (cells compared as the parser reads
\* them, trimmed) makes the parse throw the missing-column error, whatever
\* the other header cells and the data lines are; no table is returned.
C5_MissingKeywordThrows ==
  Parsed =>
    LET lines == TextLines
    IN  (/\ Len(lines) > 0
         /\ \A i \in 1..Len(WrittenHeaderCells(lines)) :
              Trim(WrittenHeaderCells(lines)[i]) # <<"Keyword">>)
          => parsed = Throw([kind |-> "MissingKeyword"])

\* C5 witness: a header with recognized columns but no Keyword, followed by
\* data lines, has been refused
C5_Witness ==
  /\ parsed = Throw([kind |-> "MissingKeyword"])
  /\ LET lines == TextLines
     IN  /\ Len(lines) >= 2
         /\ lines[1] = LineHeaderNoKeyword

\* the Trends list of a data line as parseFloatList returns it, given the
\* line's Trends cell (the empty list for a line without the cell)
TrendsList(cell, lineNumber) ==
  IF cell = Undefined THEN Ok(<<>>) ELSE parseFloatList(cell[1], "Trends", lineNumber)

TrendsCellBlank(cell) == cell = Undefined \/ Trim(cell[1]) = <<>>

\* C6 as stated: with a Trends column, a data line decodes only if its Trends
\* list has exactly 12 values, and a list of any other length (0 included)
\* fails the load with the Trends-length error.
C6_ExactlyTwelve ==
  Parsed =>
    LET lines == TextLines
    IN  (HasValidHeader(lines) /\ "Trends" \in DOMAIN HeaderIndexOf(lines)) =>
          \A i \in 1..DataLineCount(lines) :
            LET out == LineOutcome(lines, i)
                list == TrendsList(CellOf(lines, i, "Trends"), i + 1)
            IN  /\ ~out.err => Len(list.val) = 12
                /\ (~list.err /\ Len(list.val) # 12) =>
                     /\ out = Throw([kind |-> "TrendsLength", line |-> i + 1])
                     /\ parsed.err

\* C6 as amended: an empty, white-space or missing Trends cell is the empty
\* list and is accepted; a data line decodes only if its Trends list is that
\* empty list or has exactly 12 values, and a list of any other length fails
\* the load, the line's error being the Trends-length error.
C6_TwelveOrNone ==
  Parsed =>
    LET lines == TextLines
    IN  (HasValidHeader(lines) /\ "Trends" \in DOMAIN HeaderIndexOf(lines)) =>
          \A i \in 1..DataLineCount(lines) :
            LET out == LineOutcome(lines, i)
                cell == CellOf(lines, i, "Trends")
                list == TrendsList(cell, i + 1)
            IN  /\ ~out.err =>
                     \/ Len(list.val) = 12
                     \/ Len(list.val) = 0 /\ TrendsCellBlank(cell)
                /\ (~list.err /\ Len(list.val) \notin {0, 12}) =>
                     /\ out = Throw([kind |-> "TrendsLength", line |-> i + 1])
                     /\ parsed.err
                /\ (~list.err /\ Len(list.val) = 0) =>
                     (~out.err \/ out.error.kind # "TrendsLength")

\* C6 witness: a load has failed on a first data line with 13 Trends values
C6_Witness ==
  /\ parsed = Throw([kind |-> "TrendsLength", line |-> 2])
  /\ LET lines == TextLines
         list == TrendsList(CellOf(lines, 1, "Trends"), 2)
     IN  /\ HasValidHeader(lines) /\ "Trends" \in DOMAIN HeaderIndexOf(lines)
         /\ ~list.err /\ Len(list.val) = 13

\* the pieces of a Trends cell, and the numbers they hold
TrendsPieces(cell) == IF cell = Undefined THEN <<>> ELSE Split(cell[1], ",")

TrendsNumbers(cell) ==
  LET pieces == TrendsPieces(cell)
  IN  [j \in 1..Len(pieces) |-> ParseFloat(Trim(pieces[j]))]

TwelveNumbers(numbers) == Len(numbers) = 12 /\ \A j \in 1..12 : ~numbers[j].nan

\* a value below 0 is stored as 0, above 1 as 1, inside the range unchanged
StoredTrend(v, stored) ==
  /\ v.n < 0 => stored = [n |-> 0, d |-> 1]
  /\ v.n > v.d => stored = [n |-> 1, d |-> 1]
  /\ (0 <= v.n /\ v.n <= v.d) => stored = v

\* C7: a data line whose Trends cell holds exactly 12 numbers is never
\* refused for its Trends cell, out-of-range values included; every Trends
\* value of every row of a returned table lies in [0, 1]; and the 12 stored
\* values are the 12 parsed values in order, each clamped to [0, 1].
C7_TrendsClamped ==
  Parsed =>
    LET lines == TextLines
    IN  /\ HasValidHeader(lines) =>
             \A i \in 1..DataLineCount(lines) :
               LET numbers == TrendsNumbers(CellOf(lines, i, "Trends"))
                   out == LineOutcome(lines, i)
               IN  TwelveNumbers(numbers) =>
                     IF out.err
                     THEN /\ out.error.kind # "TrendsLength"
                          /\ out.error.label # "Trends"
                     ELSE /\ Len(out.val.trends) = 12
                          /\ \A j \in 1..12 : StoredTrend(numbers[j].v, out.val.trends[j])
                          /\ ~parsed.err => parsed.val.rows[i].trends = out.val.trends
        /\ ~parsed.err =>
             \A i \in 1..Len(parsed.val.rows) :
               \A j \in 1..Len(parsed.val.rows[i].trends) :
                 /\ 0 <= parsed.val.rows[i].trends[j].n
                 /\ parsed.val.rows[i].trends[j].n <= parsed.val.rows[i].trends[j].d

\* C7 witness: a returned row whose Trends cell held values below 0 and
\* above 1
C7_Witness ==
  /\ Parsed /\ ~parsed.err
  /\ Len(parsed.val.rows) >= 1
  /\ Len(parsed.val.rows[1].trends) = 12
  /\ LET numbers == TrendsNumbers(CellOf(TextLines, 1, "Trends"))
     IN  /\ TwelveNumbers(numbers)
         /\ \E j \in 1..12 : numbers[j].v.n < 0
         /\ \E j \in 1..12 : numbers[j].v.n > numbers[j].v.d

\* C8: the line number of a row-level error is the position of the offending
\* line in the text, blank lines counted (header on line 1 of a text without
\* blank lines).
C8_ErrorLineIsTextLine ==
  (Parsed /\ parsed.err /\ parsed.error.kind \in RowErrorKinds) =>
    parsed.error.line = PositionInText(SetMin(UndecodableLines(TextLines)) + 1)

\* C9: every row of a returned table has a non-empty keyword.
C9_KeywordNonEmpty ==
  (Parsed /\ ~parsed.err) =>
    \A i \in 1..Len(parsed.val.rows) : parsed.val.rows[i].keyword # <<>>


-----------------------------------------------------------------------------
(* Absent values *)

\* the number | null fields of a row and the column each is read from
NumericColumns ==
  [ searchVolume |-> "Search Volume", cpc |-> "CPC", competition |-> "Competition",
    numberOfResults |-> "Number of Results", relatedRelevance |-> "Related Relevance",
    kd |-> "Keyword Difficulty Index" ]

\* the number[] fields of a row and the column each is read from
ListColumns ==
  [ trends |-> "Trends", serpFeatures |-> "Keywords SERP Features", intentCodes |-> "Intent" ]

\* no column, no cell at the column's position, or an empty or white-space cell
CellAbsent(cell) == cell = Undefined \/ Trim(cell[1]) = <<>>

\* the error is about the value of the column
ErrorAbout(error, header) ==
  \/ error.kind \in {"InvalidValue", "InvalidListEntry"} /\ error.label = header
  \/ error.kind = "TrendsLength" /\ header = "Trends"

\* the data line at i, decoded on its own, reads the absent cell of the
\* field's column as `none`, and is not refused for that column
AbsentReadAs(out, cell, field, header, none) ==
  CellAbsent(cell) =>
    IF out.err THEN ~ErrorAbout(out.error, header) ELSE out.val[field] = none

\* C11: for every data line under a valid header, a numeric field whose
\* column is not in the header, whose cell is empty or white space, or whose
\* position lies past the end of the line is null (not zero), a list field in
\* the same situation is the empty sequence, and the line is never refused
\* for such a cell; the rows of a returned table are these decoded lines.
C11_AbsentIsNoValue ==
  Parsed =>
    LET lines == TextLines
    IN  HasValidHeader(lines) =>
          \A i \in 1..DataLineCount(lines) :
            LET out == LineOutcome(lines, i)
            IN  /\ \A field \in DOMAIN NumericColumns :
                     AbsentReadAs(out, CellOf(lines, i, NumericColumns[field]),
                                  field, NumericColumns[field], Null)
                /\ \A field \in DOMAIN ListColumns :
                     AbsentReadAs(out, CellOf(lines, i, ListColumns[field]),
                                  field, ListColumns[field], <<>>)
                /\ ~parsed.err => parsed.val.rows[i] = out.val

\* C11 witness: a table has been returned with a row from a line that ends
\* before the Search Volume column and a row from a line with white-space
\* Search Volume and tag cells, under a header without the CPC column
C11_Witness ==
  /\ Parsed /\ ~parsed.err
  /\ LET lines == TextLines
     IN  /\ Len(lines) = 3
         /\ lines[1] = LineHeader
         /\ lines[2] = LineShort
         /\ lines[3] = LineBlankCells
         /\ CellOf(lines, 1, "Search Volume") = Undefined
         /\ CellOf(lines, 2, "Search Volume") = Defined(<< " " >>)
         /\ CellOf(lines, 2, "Keywords SERP Features") = Defined(<< " " >>)
         /\ CellOf(lines, 2, "CPC") = Undefined
  /\ parsed.val.rows[1].searchVolume = Null
  /\ parsed.val.rows[2].searchVolume = Null
  /\ parsed.val.rows[2].cpc = Null
  /\ parsed.val.rows[2].serpFeatures = <<>>
  /\ parsed.val.rows[1].trends = <<>>


-----------------------------------------------------------------------------
(* List cells *)

\* the comma-separated pieces of a list cell, none for an absent cell
PiecesOf(cell) == IF CellAbsent(cell) THEN <<>> ELSE Split(cell[1], ",")

\* the text is a number as a whole: an optional sign, then digits with at
\* most one point among them and nothing else
IsNumberText(t) ==
  /\ \E i \in 1..Len(Unsigned(t)) : Unsigned(t)[i] \in Digits
  /\ \A i \in 1..Len(Unsigned(t)) : Unsigned(t)[i] \in Digits \cup {"."}
  /\ Cardinality({i \in 1..Len(Unsigned(t)) : Unsigned(t)[i] = "."}) <= 1

MalformedPieces(pieces) == {j \in 1..Len(pieces) : ~IsNumberText(Trim(pieces[j]))}

\* C12: a data line with a list cell (Trends, Keywords SERP Features, Intent)
\* one of whose comma-separated pieces is not a number is refused, and the
\* load with it; a line that is decoded has, for every list cell, exactly one
\* entry per piece.
C12_MalformedPieceFails ==
  Parsed =>
    LET lines == TextLines
    IN  HasValidHeader(lines) =>
          \A i \in 1..DataLineCount(lines) :
            LET out == LineOutcome(lines, i)
            IN  \A field \in DOMAIN ListColumns :
                  LET pieces == PiecesOf(CellOf(lines, i, ListColumns[field]))
                  IN  /\ MalformedPieces(pieces) # {} => (out.err /\ parsed.err)
                      /\ ~out.err => Len(out.val[field]) = Len(pieces)

\* the integers parseIntList reads from the pieces, in the order of the cell
IntsOf(pieces) == [j \in 1..Len(pieces) |-> ParseInt(Trim(pieces[j])).v]

\* how often x occurs in the list
Occurrences(list, x) == Cardinality({j \in 1..Len(list) : list[j] = x})

Ascending(list) == \A j \in 1..(Len(list) - 1) : list[j] <= list[j + 1]

\* `sorted` is `source` in ascending order, every occurrence kept
SortedPermutation(sorted, source) ==
  /\ Ascending(sorted)
  /\ Len(sorted) = Len(source)
  /\ \A j \in 1..Len(source) : Occurrences(sorted, source[j]) = Occurrences(source, source[j])

TagFields == {"serpFeatures", "intentCodes"}

\* C13: serpFeatures and intentCodes of every decoded data line, and so of
\* every row of a returned table, are the integers read from the pieces of
\* the cell, in ascending order with every duplicate kept.
C13_TagsSortedPermutation ==
  Parsed =>
    LET lines == TextLines
    IN  HasValidHeader(lines) =>
          \A i \in 1..DataLineCount(lines) :
            LET out == LineOutcome(lines, i)
            IN  ~out.err =>
                  \A field \in TagFields :
                    /\ SortedPermutation(out.val[field],
                                         IntsOf(PiecesOf(CellOf(lines, i, ListColumns[field]))))
                    /\ ~parsed.err => parsed.val.rows[i][field] = out.val[field]

\* C13 witness: a returned row whose tag cell lists 7, 2, 7 and whose intent
\* cell lists 3, 1, 3
C13_Witness ==
  /\ Parsed /\ ~parsed.err
  /\ Len(parsed.val.rows) >= 1
  /\ IntsOf(PiecesOf(CellOf(TextLines, 1, "Keywords SERP Features"))) = <<7, 2, 7>>
  /\ IntsOf(PiecesOf(CellOf(TextLines, 1, "Intent"))) = <<3, 1, 3>>
  /\ parsed.val.rows[1].serpFeatures = <<2, 7, 7>>
  /\ parsed.val.rows[1].intentCodes = <<1, 3, 3>>

-----------------------------------------------------------------------------
(* Header and blank input *)

\* the text has no character but white space and line breaks
BlankText == \A i \in 1..Len(text) : text[i] \in WhiteSpace

\* C14: the parse of a text without a non-blank line returns (it does not
\* throw, the missing-Keyword error included) an empty table in which all 10
\* recognized columns are present.
C14_BlankInputIsEmptyTable ==
  (Parsed /\ BlankText) =>
    /\ ~parsed.err
    /\ parsed.val.rows = <<>>
    /\ parsed.val.availableHeaders = HeaderNames
    /\ Cardinality(parsed.val.availableHeaders) = 10

\* C14 witness: a text of white space and line breaks has been parsed
C14_Witness ==
  /\ Parsed /\ BlankText
  /\ \E i \in 1..Len(text) : text[i] = "\n"
  /\ \E i \in 1..Len(text) : text[i] = " "
  /\ \E i \in 1..Len(text) : text[i] = "\r"

\* the recognized column names that occur among the cells of the header line
\* (a cell without the white space around it)
RecognizedInHeader(lines) ==
  {h \in HeaderNames :
     \E i \in 1..Len(WrittenHeaderCells(lines)) : Trim(WrittenHeaderCells(lines)[i]) = <<h>>}

\* C15: for a text whose header has a Keyword cell, the parse does not throw
\* the missing-column error, the presence set of a returned table is the set
\* of recognized names among the header cells, whatever their order and the
\* other cells, and a text with the header line only returns the empty table
\* with that set.
C15_PresenceSetIsHeader ==
  Parsed =>
    LET lines == TextLines
    IN  (Len(lines) > 0 /\ "Keyword" \in RecognizedInHeader(lines)) =>
          /\ parsed # Throw([kind |-> "MissingKeyword"])
          /\ ~parsed.err => parsed.val.availableHeaders = RecognizedInHeader(lines)
          /\ Len(lines) = 1 =>
               parsed = Ok([rows |-> <<>>, availableHeaders |-> RecognizedInHeader(lines)])

\* C15 witness: a table with a row has been returned for a header with the
\* columns in another order than the catalog, padded cells and an
\* unrecognized cell
C15_Witness ==
  /\ Parsed /\ ~parsed.err
  /\ Len(parsed.val.rows) >= 1
  /\ WrittenHeaderCells(TextLines) = << <<"Trends">>, <<" ", "Keyword", " ">>, <<"x">> >>
  /\ parsed.val.availableHeaders = {"Keyword", "Trends"}

-----------------------------------------------------------------------------
(* The query engine on its own: the views of one loaded table under the
   filters and sorts the user can set.  No atom of the keywords and filter
   texts is part of another, so that includes() is a matter of whole atoms. *)

\* a file with empty cells in every optional column, equal values, a keyword
\* in two cases, tag lists with one and with both of the tags 1 and 4, and a
\* last line with the keyword only
FileQ ==
  [ name |-> "q.txt",
    text |-> << "Keyword", ";", "Search Volume", ";", "CPC", ";", "Keywords SERP Features", ";",
                "Intent", ";", "Keyword Difficulty Index", ";", "Competition", ";",
                "Number of Results", "\n",
                "SEO", " ", "audit", ";", "3", "0", ";", "1", ".", "5", ";", "4", ",", "1", ";",
                "3", ",", "1", ";", "5", "0", ";", "0", ".", "5", ";", "1", ",", "0", "0", "0", "\n",
                "seo", ";", ";", "1", ".", "5", ";", "1", ";", "1", ";", ";", "0", ".", "2", "5",
                ";", "\n",
                "buy", " ", "seo", ";", "3", "0", ";", ";", "4", ";", ";", "5", "0", ";", ";",
                "2", "0", "0", "\n",
                "local", " ", "audit", ";", "5", ";", "0", ".", "5", ";", ";", "1", ",", "3", ";",
                "2", "0", ";", "0", ".", "5", ";", "2", "0", "0", "\n",
                "seo" >> ]

\* what parseSemrushText makes of the text of that file
TableQ == parseSemrushText(FileQ.text)

\* the search box: a word in upper case, the same after white space, white
\* space only
QueryKeywordInputs == {<<>>, <<"SEO">>, <<" ", "SEO">>, <<" ">>}

QueryFeatureInputs == {1, 4}

QueryClickIds == {1, 2}

SortKeys == {"keyword", "intent", "volume", "kd", "cpc", "competition", "results"}

\* a file with the Intent column only: no code, negative codes, a code and
\* a list that starts with it
FileN ==
  [ name |-> "n.txt",
    text |-> << "Keyword", ";", "Intent", "\n",
                "seo", ";", "\n",
                "audit", ";", "-", "2", "\n",
                "buy", ";", "-", "1", "\n",
                "local", ";", "1", "\n",
                "tool", ";", "3", ",", "1" >> ]

TableN == parseSemrushText(FileN.text)

\* the files the user has picked, each with its table
QueryLoads == {[file |-> FileQ, table |-> TableQ], [file |-> FileN, table |-> TableN]}

\* the component once the file has been picked and its table installed
InitQuery ==
  /\ \E load \in QueryLoads :
       /\ rows = load.table.val.rows
       /\ availableHeaders = load.table.val.availableHeaders
       /\ loadedFileName = load.file.name
       /\ loads = << [file |-> load.file, state |-> "installed"] >>
  /\ selectedIds = {}
  /\ selectedOnly = FALSE
  /\ keywordInput = <<>>
  /\ debouncedKeyword = <<>>
  /\ searchDebounce = NoTimer
  /\ timers = {}
  /\ showSaveNotesModal = FALSE
  /\ notesText = <<>>
  /\ isSaving = FALSE
  /\ saving = [at |-> "idle"]
  /\ saved = <<>>
  /\ selectedSerpFeatures = {}
  /\ parseError = NoError
  /\ sortKey = "volume"
  /\ sortDir = "desc"
  /\ text = <<>>
  /\ parsed = NotParsed

NextQuery ==
  \/ \E id \in QueryClickIds : ToggleRow(id)
  \/ ToggleSelectedOnly
  \/ \E next \in SortKeys : setSort(next)
  \/ \E featureId \in QueryFeatureInputs : toggleFeatureFilter(featureId)
  \/ \E value \in QueryKeywordInputs : TypeKeyword(value)
  \/ DebounceFires

SpecQuery == InitQuery /\ [][NextQuery]_vars

-----------------------------------------------------------------------------
(* Claims about the filters, checked under SpecQuery *)

\* the view the user would have with other filter settings, the table and
\* the sort as they are
ViewWith(debounced, onlySelected, selected, features) ==
  sortedRows(filteredRows(rows, debounced, onlySelected, selected, features), sortKey, sortDir)

\* the tags a row has
TagsOf(row) == {row.serpFeatures[j] : j \in 1..Len(row.serpFeatures)}

\* the rows of a view that have every tag of the set, in the order of the view
WithEveryTag(view, tags) == SelectSeq(view, LAMBDA row : tags \subseteq TagsOf(row))

\* C16: the view is the view without tag filters restricted to the rows
\* whose serpFeatures contain every active tag: all of it with no active tag,
\* the rows with the tag for one, the rows with both tags for two.
C16_TagFilterIsAnd ==
  visibleRows =
    WithEveryTag(ViewWith(debouncedKeyword, selectedOnly, selectedIds, {}), selectedSerpFeatures)

\* C16 witness: with the tags 1 and 4 active and no other filter, the view
\* is the one row with both; the table has a row with tag 1 only and a row
\* with tag 4 only
C16_Witness ==
  /\ selectedSerpFeatures = {1, 4}
  /\ debouncedKeyword = <<>> /\ ~selectedOnly
  /\ RowIds(visibleRows) = {1}
  /\ TagsOf(rows[2]) = {1}
  /\ TagsOf(rows[3]) = {4}

\* `needle` occurs in the keyword of the row, case set aside
KeywordContains(row, needle) == Includes(ToLowerCase(row.keyword), ToLowerCase(needle))

\* the rows of a view whose keyword contains the text, or all for no text
WithText(view, needle) ==
  SelectSeq(view, LAMBDA row : needle = <<>> \/ KeywordContains(row, needle))

\* C17 as stated: the view is the view without text filter restricted to
\* the rows whose keyword contains the applied filter text exactly as it
\* is, white space at its ends included, case set aside; all of it for the
\* empty text.
C17_TextFilterExact ==
  visibleRows =
    WithText(ViewWith(<<>>, selectedOnly, selectedIds, selectedSerpFeatures), debouncedKeyword)

\* C17 as amended: the view is the view without text filter restricted to
\* the rows whose keyword contains the applied filter text without the white
\* space at its ends, case set aside; all of it for a text that is empty or
\* white space only.
C17_TextFilterTrimmed ==
  visibleRows =
    WithText(ViewWith(<<>>, selectedOnly, selectedIds, selectedSerpFeatures),
             Trim(debouncedKeyword))

\* C17 witness: with the text " SEO" applied and no other filter, the view
\* has the four rows with "seo" or "SEO" in the keyword, three of which do
\* not have the text with the space before it
C17_Witness ==
  /\ debouncedKeyword = <<" ", "SEO">>
  /\ ~selectedOnly /\ selectedSerpFeatures = {}
  /\ RowIds(visibleRows) = {1, 2, 3, 5}
  /\ {i \in 1..Len(rows) : KeywordContains(rows[i], debouncedKeyword)} = {3}

\* the rows of a view whose id is in the set, in the order of the view
WithIdIn(view, ids) == SelectSeq(view, LAMBDA row : row.id \in ids)

\* C18: with the selection-only flag active the view is the view of the
\* other filters restricted to the rows whose id is selected; with the flag
\* inactive the view is what it would be with nothing selected and with
\* every row selected.
C18_SelectionOnlyFlag ==
  IF selectedOnly
  THEN visibleRows =
         WithIdIn(ViewWith(debouncedKeyword, FALSE, selectedIds, selectedSerpFeatures),
                  selectedIds)
  ELSE /\ visibleRows = ViewWith(debouncedKeyword, FALSE, {}, selectedSerpFeatures)
       /\ visibleRows = ViewWith(debouncedKeyword, TRUE, RowIds(rows), selectedSerpFeatures)

\* C18 witness: rows 1 and 2 are selected, the flag and the tag filter 4
\* are active, and the view is row 1: row 2 is selected and lacks the tag,
\* row 3 has the tag and is not selected
C18_Witness ==
  /\ selectedOnly
  /\ selectedIds = {1, 2}
  /\ selectedSerpFeatures = {4} /\ debouncedKeyword = <<>>
  /\ RowIds(visibleRows) = {1}
  /\ RowIds(ViewWith(debouncedKeyword, FALSE, selectedIds, selectedSerpFeatures)) = {1, 3}

-----------------------------------------------------------------------------
(* Claims about the sort, checked under SpecQuery *)

\* the numeric sort keys and the field of the row each compares
NumericSortFields ==
  [ volume |-> "searchVolume", kd |-> "kd", cpc |-> "cpc", competition |-> "competition",
    results |-> "numberOfResults" ]

\* a <= b for numbers
AtMost(a, b) == a.n * b.d <= b.n * a.d

\* a row with the value `first` may stand before a row with the value
\* `second` in ascending order: no value before any value, values not
\* decreasing
InAscendingOrder(first, second) ==
  /\ second = Null => first = Null
  /\ (first # Null /\ second # Null) => AtMost(first, second)

\* C19: under a numeric sort key, of any two rows of the view the one shown
\* first has, in ascending direction, no value or a value not above the
\* other's, which then has a value too unless both have none; in descending
\* direction the same holds with the two rows exchanged.
C19_NumericSortOrder ==
  sortKey \in DOMAIN NumericSortFields =>
    \A p, q \in 1..Len(visibleRows) :
      p < q =>
        IF sortDir = "asc"
        THEN InAscendingOrder(visibleRows[p][NumericSortFields[sortKey]],
                              visibleRows[q][NumericSortFields[sortKey]])
        ELSE InAscendingOrder(visibleRows[q][NumericSortFields[sortKey]],
                              visibleRows[p][NumericSortFields[sortKey]])

\* C19 witness: the whole table sorted by cpc, ascending: the two rows
\* without a cpc first, then 0.5, then 1.5 twice
C19_Witness ==
  /\ sortKey = "cpc" /\ sortDir = "asc"
  /\ Len(visibleRows) = 5
  /\ visibleRows[1].cpc = Null /\ visibleRows[2].cpc = Null
  /\ visibleRows[3].cpc = [n |-> 5, d |-> 10]
  /\ visibleRows[4].cpc = [n |-> 15, d |-> 10]
  /\ visibleRows[5].cpc = [n |-> 15, d |-> 10]

\* C20: under every sort key and in both directions, two rows of the view
\* that compare equal under the key (two rows without a value included) are
\* shown in the order they have in the table.
C20_SortIsStable ==
  \A p, q \in 1..Len(visibleRows) :
    (p < q /\ compareRows(visibleRows[p], visibleRows[q], sortKey) = 0) =>
      visibleRows[p].id < visibleRows[q].id

\* C20 witness: the whole table sorted by kd, descending: rows 1 and 3 have
\* the same kd and rows 2 and 5 have none, and each pair is in table order
C20_Witness ==
  /\ sortKey = "kd" /\ sortDir = "desc"
  /\ Len(visibleRows) = 5
  /\ [p \in 1..5 |-> visibleRows[p].id] = <<1, 3, 4, 2, 5>>
  /\ rows[1].kd = rows[3].kd /\ rows[1].kd # Null
  /\ rows[2].kd = Null /\ rows[5].kd = Null

\* a stands before b in the order by position: a is a proper prefix of b,
\* or a has the smaller code at the first position where they differ
LexBefore(a, b) ==
  \/ Len(a) < Len(b) /\ SubSeq(b, 1, Len(a)) = a
  \/ \E i \in 1..Len(a) :
       /\ i <= Len(b)
       /\ SubSeq(a, 1, i - 1) = SubSeq(b, 1, i - 1)
       /\ a[i] < b[i]

\* C21: under the intent key in ascending direction no row of the view is
\* shown after a row whose intentCodes stand after its own in the order by
\* position, a proper prefix standing before the longer sequence; and two
\* rows compare equal under the intent key only if their intentCodes are
\* identical.
C21_IntentOrderByPosition ==
  /\ (sortKey = "intent" /\ sortDir = "asc") =>
       \A p, q \in 1..Len(visibleRows) :
         p < q => ~LexBefore(visibleRows[q].intentCodes, visibleRows[p].intentCodes)
  /\ \A i, j \in 1..Len(rows) :
       compareIntent(rows[i].intentCodes, rows[j].intentCodes) = 0 =>
         rows[i].intentCodes = rows[j].intentCodes

-----------------------------------------------------------------------------
(* The debounced text filter: typing, loads and clearFilters *)

\* what the user types into the search box
TypedInputs == {<<>>, <<"login">>, <<"seo">>}

NextDebounce ==
  \/ \E file \in Files : OnFileChange(file)
  \/ \E i \in 1..Len(loads) : FileTextResolved(i)
  \/ clearFilters
  \/ \E value \in TypedInputs : TypeKeyword(value)
  \/ DebounceFires

\* the browser runs the callback of a timeout once its 200 ms are over
SpecDebounce == Init /\ [][NextDebounce]_vars /\ WF_vars(DebounceFires)

AtMostOneTimer == Cardinality(timers) <= 1

\* a step that changes the raw input leaves exactly one pending timeout: a
\* new one, held by searchDebounce, that will apply the new value
ChangeRestartsTimer ==
  keywordInput' # keywordInput =>
    /\ searchDebounce' # NoTimer
    /\ timers' = {Timeout(searchDebounce'.id, keywordInput')}
    /\ timers' \cap timers = {}

\* a step that changes the applied text either resets it together with the
\* raw input, or is a pending timeout firing with the raw input as it is now
AppliedByTimerOnly ==
  debouncedKeyword' # debouncedKeyword =>
    \/ debouncedKeyword' = <<>> /\ keywordInput' = <<>>
    \/ /\ keywordInput' = keywordInput
       /\ debouncedKeyword' = keywordInput
       /\ \E t \in timers : t.value = keywordInput /\ t \notin timers'

\* C22: at most one timeout of the watcher is pending at any time; every
\* change of the raw input cancels the pending timeout and starts a new one;
\* the applied filter text changes to a typed value only when a timeout fires
\* with no input change since it was started; and if the raw input stops
\* changing, the applied filter text ends up equal to it.
C22_Debounce ==
  /\ []AtMostOneTimer
  /\ [][ChangeRestartsTimer]_vars
  /\ [][AppliedByTimerOnly]_vars
  /\ \A v \in TypedInputs : <>[](keywordInput = v) => <>[](debouncedKeyword = v)

\* a typed value was applied, and a later change has its timeout pending
C22_Witness ==
  /\ debouncedKeyword = <<"login">>
  /\ keywordInput = <<"seo">>
  /\ timers = {Timeout(1, <<"seo">>)}

-----------------------------------------------------------------------------
(* The save-notes dialog: SaveTextModal.vue and its use by the table *)

\* how many 'saved' events are followed
MaxSaves == 2

\* what the user writes into the textarea, one character per atom
NotesInputs == {<<>>, <<" ">>, <<"o", "k">>}

\* default-filename="semrush-notes.txt"
DefaultFilename == <<"semrush-notes", ".txt">>

\* handle.name of the file the user chose in the picker
PickedNames == {<<"Plan">>}

\* error.name of a rejected picker or write
SaveErrors == {"AbortError", "NotAllowedError"}

isSaveDisabled == Trim(notesText) = <<>>

ensureTxtFilename(raw) ==
  LET base == IF Trim(raw) = <<>> THEN <<"notes", ".txt">> ELSE Trim(raw)
  IN  IF LowerAtom(base[Len(base)]) = ".txt" THEN base ELSE Append(base, ".txt")

\* new Blob([content]).size, each atom of the notes being one ASCII character
BlobSize(content) == Len(content)

\* @click="showSaveNotesModal = true"
OpenNotes ==
  /\ ~showSaveNotesModal
  /\ showSaveNotesModal' = TRUE
  /\ UNCHANGED << notesText, isSaving, saving, saved >>
  /\ UNCHANGED << tableVars, queryVars, harnessVars >>

\* v-model="text" on the textarea of the open dialog
TypeNotes(value) ==
  /\ showSaveNotesModal
  /\ value # notesText
  /\ notesText' = value
  /\ UNCHANGED << showSaveNotesModal, isSaving, saving, saved >>
  /\ UNCHANGED << tableVars, queryVars, harnessVars >>

\* handleCancel: Cancel, Escape or a click on the overlay; `discard` is the
\* answer to window.confirm
handleCancel(discard) ==
  /\ showSaveNotesModal
  /\ IF Trim(notesText) = <<>>
       THEN showSaveNotesModal' = FALSE /\ UNCHANGED notesText
       ELSE IF discard
              THEN showSaveNotesModal' = FALSE /\ notesText' = <<>>
              ELSE UNCHANGED << showSaveNotesModal, notesText >>
  /\ UNCHANGED << isSaving, saving, saved >>
  /\ UNCHANGED << tableVars, queryVars, harnessVars >>

\* handleSave where the browser has showSaveFilePicker, up to the first await
handleSave ==
  /\ showSaveNotesModal
  /\ ~(isSaveDisabled \/ isSaving)
  /\ Len(saved) < MaxSaves
  /\ isSaving' = TRUE
  /\ saving' = [at |-> "awaiting", content |-> notesText]
  /\ UNCHANGED << showSaveNotesModal, notesText, saved >>
  /\ UNCHANGED << tableVars, queryVars, harnessVars >>

\* handleSave where it has not: saveWithDownload returns at once
handleSaveWithDownload ==
  /\ showSaveNotesModal
  /\ ~(isSaveDisabled \/ isSaving)
  /\ Len(saved) < MaxSaves
  /\ saved' = Append(saved, [filename |-> ensureTxtFilename(DefaultFilename),
                             fileSize |-> BlobSize(notesText)])
  /\ notesText' = <<>>
  /\ showSaveNotesModal' = FALSE
  /\ isSaving' = FALSE
  /\ saving' = [at |-> "saved"]
  /\ UNCHANGED << tableVars, queryVars, harnessVars >>

\* saveWithFilePicker has resolved: the rest of the try block, then finally;
\* onNotesSaved only logs the payload
SaveResolved(name) ==
  /\ saving.at = "awaiting"
  /\ saved' = Append(saved, [filename |-> ensureTxtFilename(name),
                             fileSize |-> BlobSize(saving.content)])
  /\ notesText' = <<>>
  /\ showSaveNotesModal' = FALSE
  /\ isSaving' = FALSE
  /\ saving' = [at |-> "saved"]
  /\ UNCHANGED << tableVars, queryVars, harnessVars >>

\* a catch block that gives up the dialog as the try block does
SaveRejectedClosingDialog(error) ==
  /\ saving.at = "awaiting"
  /\ notesText' = <<>>
  /\ showSaveNotesModal' = FALSE
  /\ isSaving' = FALSE
  /\ saving' = [at |-> "failed", error |-> error]
  /\ UNCHANGED saved
  /\ UNCHANGED << tableVars, queryVars, harnessVars >>

\* saveWithFilePicker has rejected: the catch block (it logs every error but
\* an AbortError), then finally
SaveRejected(error) ==
  /\ saving.at = "awaiting"
  /\ isSaving' = FALSE
  /\ saving' = [at |-> "failed", error |-> error]
  /\ UNCHANGED << showSaveNotesModal, notesText, saved >>
  /\ UNCHANGED << tableVars, queryVars, harnessVars >>

NextNotes ==
  \/ \E file \in Files : OnFileChange(file)
  \/ \E i \in 1..Len(loads) : FileTextResolved(i)
  \/ OpenNotes
  \/ \E value \in NotesInputs : TypeNotes(value)
  \/ \E discard \in BOOLEAN : handleCancel(discard)
  \/ handleSave
  \/ handleSaveWithDownload
  \/ \E name \in PickedNames : SaveResolved(name)
  \/ \E error \in SaveErrors : SaveRejected(error)

SpecNotes == Init /\ [][NextNotes]_vars

\* C23: the step in which a save ends in failure, a cancelled picker or any
\* other error, changes neither the table, the presence set nor parseError,
\* emits no 'saved' event, leaves the dialog as open as it was with its text
\* as it was, and ends with isSaving cleared.
C23_FailedSaveIsSwallowed ==
  [][(saving.at = "awaiting" /\ saving'.at = "failed") =>
       /\ UNCHANGED << rows, availableHeaders, parseError >>
       /\ saved' = saved
       /\ showSaveNotesModal' = showSaveNotesModal
       /\ notesText' = notesText
       /\ ~isSaving']_vars

\* a file was loaded and a save was cancelled in the picker; the dialog is
\* open with the notes in it and no error is shown
C23_Witness ==
  /\ saving = [at |-> "failed", error |-> "AbortError"]
  /\ showSaveNotesModal
  /\ notesText = <<"o", "k">>
  /\ ~isSaving
  /\ parseError = NoError
  /\ \E i \in 1..Len(loads) : loads[i].state = "installed"

-----------------------------------------------------------------------------
(* The session: selection and error display across loads *)

\* the step in which the read of a file ends with its table installed
Installs == \E i \in 1..Len(loads) : loads[i].state = "reading" /\ loads'[i].state = "installed"

\* C24: in every state of the session every selected id is the id of a row
\* of the loaded table, and the step that installs a new table leaves
\* nothing selected.
C24_SelectionWithinTable ==
  /\ [](selectedIds \subseteq RowIds(rows))
  /\ [][Installs => selectedIds' = {}]_vars

\* rows were selected in the demo data, a file was installed, a later load
\* failed, and rows of the installed table are selected now
C24_Witness ==
  /\ Len(loads) = 2
  /\ loads[1].state = "installed"
  /\ loads[2].state = "failed"
  /\ selectedIds # {}
  /\ 6 \notin RowIds(rows)

\* C25: once every load has finished, an error is displayed only if the
\* load initiated last has failed, and it is the error of that load.
C25_ErrorIsOfLastLoad ==
  (Len(loads) >= 1 /\ AllLoadsFinished /\ parseError # NoError) =>
    /\ loads[Len(loads)].state = "failed"
    /\ FileTables[loads[Len(loads)].file].err
    /\ parseError = FileTables[loads[Len(loads)].file].error

\* the text filter is reset: raw input and applied text are empty and no
\* pending timeout would apply anything else
FilterReset ==
  /\ keywordInput = <<>>
  /\ debouncedKeyword = <<>>
  /\ \A t \in timers : t.value = <<>>

\* C26: the step of a successful load or of clearFilters leaves the applied
\* text empty with no pending timeout that carries text typed before, and
\* from then on the applied text stays empty, and no such timeout appears,
\* in every step that does not change the raw input.
C26_ResetFilterStaysEmpty ==
  /\ [][(Installs \/ clearFilters) => FilterReset']_vars
  /\ [][(FilterReset /\ keywordInput' = keywordInput) => FilterReset']_vars

\* a file has been installed, raw input and applied text are empty, and the
\* one pending timeout is the one started when the raw input became empty
C26_Witness ==
  /\ \E i \in 1..Len(loads) : loads[i].state = "installed"
  /\ loadedFileName # "Demo data"
  /\ FilterReset
  /\ timers = {Timeout(1, <<>>)}

=============================================================================
